---- MODULE Spec2Model ----
(***************************************************************************)
(* Model of detox/src/artifacts/ArtifactsManager.js: the lifecycle         *)
(* dispatcher (_emit and the on* methods), the capability API handed to    *)
(* plugins (accessors, artifact tracking, requestIdleCallback), the idle   *)
(* promise chain and the onTerminate teardown.                             *)
(*                                                                         *)
(* Promises are modelled by their settlement state.  A plugin hook, an     *)
(* idle callback and artifact.discard() are code outside the class: each   *)
(* either throws synchronously when invoked, or returns a promise that is  *)
(* settled (fulfilled or rejected) by a later step.                        *)
(***************************************************************************)
EXTENDS Integers, Sequences, FiniteSets, TLC

\* ---------------------------------------------------------------- bounds
NumPlugins == 2          \* plugins the factories map can hold
MaxCalls == 2            \* lifecycle fan-outs raised in one run
MaxIdle == 3             \* requestIdleCallback calls in one run
NumArtifacts == 2        \* distinct artifact objects
MaxTracked == 2          \* trackArtifact calls in one run
MaxTerminateCalls == 2   \* calls of the wrapped onTerminate
MaxLaunches == 2         \* launchApp events in one run
NumCallbacks == 2        \* distinct callback functions handed to requestIdleCallback
MaxWork == 2             \* events, requests and tracked artifacts of a run of SpecFrame

\* ------------------------------------------------------- input domains
\* NaN is the constructor's initial pid; like 0 and '' it is falsy in JS.
NaN == -1
DeviceIds == {"", "emu-1", "emu-2"}
BundleIds == {"", "com.app"}
Pids == {0, 4242}
ResetDeviceIds == {"emu-1"}
TestSummaries == {[title |-> "test 1"]}

PluginIds == 1 .. NumPlugins
\* plugin.name; a plugin with an even id has no name
PluginNameOf(p) == IF p % 2 = 0 THEN "" ELSE ToString(p)

Methods == {"onBeforeAll", "onBeforeTest", "onBeforeResetDevice", "onResetDevice",
            "onRelaunchApp", "onAfterTest", "onAfterAll"}

VARIABLES
  _idlePromise,      \* index in chain of the tail promise; 0 is Promise.resolve()
  _onIdleCallbacks,  \* queue of idle callbacks (ids into idleTasks)
  _activeArtifacts,  \* array of tracked artifacts
  _artifactPlugins,  \* array of plugin instances
  _deviceId, _bundleId, _pid,
  _terminated,       \* this._terminated, read by requestIdleCallback's continuation
  registered,        \* registerArtifactPlugins has been called
  onceCalls,         \* number of calls of the _.once wrapper of onTerminate
  termState,         \* the promise of onTerminate's body
  termHooks,         \* plugin.onTerminate() promises of the body
  discards,          \* artifact.discard() promises of the body
  calls,             \* the dispatcher calls raised so far (one _emit each)
  chain,             \* the promises created by requestIdleCallback's .then; late: the
                     \* request came after onTerminate was invoked; mode: the drain run
  idleTasks,         \* every request made to requestIdleCallback: the callback
                     \* function passed, the name of the caller that passed it
  _from,             \* callback._from, the tag requestIdleCallback writes on the
                     \* callback function
  started,           \* idle callbacks in the order they were invoked
  errorLog,          \* (plugin name, phase) pairs reported by _errorHandler
  apiResult,         \* the latest call of an accessor or of trackArtifact or
                     \* untrackArtifact, and its outcome
  launches,          \* number of launchApp events handled
  lastLaunch,        \* payload of the latest launchApp event
  relaunches,        \* number of onRelaunchApp fan-outs
  hookCalls,         \* hookCalls[p][m]: invocations of plugin p's hook m
  terminateCalls,    \* terminateCalls[p]: invocations of plugin p's onTerminate
  discardCalls,      \* discardCalls[a]: invocations of artifact a's discard
  discardRounds,     \* executions of the discard line of onTerminate's body
  teardownLive       \* live: the artifacts handed to trackArtifact and not handed to
                     \* untrackArtifact since, up to the call of onTerminate; clean: no
                     \* artifact was tracked or untracked after that call

ctxVars == <<_deviceId, _bundleId, _pid, apiResult, launches, lastLaunch, relaunches>>
idleVars == <<_idlePromise, _onIdleCallbacks, chain, idleTasks, started, _from>>
termVars == <<onceCalls, termState, termHooks, discards, terminateCalls, discardCalls,
             discardRounds, teardownLive>>
emitVars == <<calls, hookCalls>>
vars == <<_idlePromise, _onIdleCallbacks, _activeArtifacts, _artifactPlugins,
          _deviceId, _bundleId, _pid, _terminated, registered, onceCalls, termState,
          termHooks, discards, calls, chain, idleTasks, started, errorLog, apiResult,
          launches, lastLaunch, relaunches, hookCalls, terminateCalls, discardCalls,
          discardRounds, teardownLive, _from>>

\* ------------------------------------------------------------- helpers
\* JS truthiness of the values the run context can hold
TruthyString(s) == s # ""
TruthyNumber(n) == n # 0 /\ n # NaN

FirstThrow(n, throws) ==
  IF \E i \in 1 .. n : throws[i]
  THEN CHOOSE i \in 1 .. n : throws[i] /\ \A j \in 1 .. (i - 1) : ~throws[j]
  ELSE n + 1

\* Array.map over n elements whose callback lets a synchronous throw escape:
\* the map stops at the first throw and the later elements are never visited
MapUncaught(n, throws) ==
  LET ft == FirstThrow(n, throws)
  IN  [i \in 1 .. n |-> IF i < ft THEN "running" ELSE IF i = ft THEN "threw" ELSE "none"]

\* the elements of an array
Tracked(array) == {array[i] : i \in 1 .. Len(array)}

\* log.error('... plugin (%s) at phase %s', plugin.name || 'unknown', methodName)
_errorHandler(name, methodName) ==
  <<IF name # "" THEN name ELSE "unknown", methodName>>

Init ==
  /\ _idlePromise = 0
  /\ _onIdleCallbacks = <<>>
  /\ _activeArtifacts = <<>>
  /\ _artifactPlugins = <<>>
  /\ _deviceId = ""
  /\ _bundleId = ""
  /\ _pid = NaN
  /\ _terminated = FALSE
  /\ registered = FALSE
  /\ onceCalls = 0
  /\ termState = "notCalled"
  /\ termHooks = <<>>
  /\ discards = <<>>
  /\ calls = <<>>
  /\ chain = <<>>
  /\ idleTasks = <<>>
  /\ started = <<>>
  /\ _from = [cb \in 1 .. NumCallbacks |-> ""]
  /\ errorLog = {}
  /\ apiResult = [fn |-> "none", threw |-> FALSE]
  /\ launches = 0
  /\ lastLaunch = [deviceId |-> "", bundleId |-> "", pid |-> NaN]
  /\ relaunches = 0
  /\ hookCalls = [p \in PluginIds |-> [m \in Methods |-> 0]]
  /\ terminateCalls = [p \in PluginIds |-> 0]
  /\ discardCalls = [a \in 1 .. NumArtifacts |-> 0]
  /\ discardRounds = 0
  /\ teardownLive = [live |-> {}, clean |-> TRUE]

\* ------------------------------------------------------ plugin registry
\* registerArtifactPlugins(map): one instance per factory, in map order.
\* The run registers its plugins once, before any event is raised.
registerArtifactPlugins(n) ==
  /\ ~registered
  /\ registered' = TRUE
  /\ _artifactPlugins' = [i \in 1 .. n |-> i]
  /\ UNCHANGED <<_activeArtifacts, _terminated, errorLog, ctxVars, idleVars, termVars, emitVars>>

\* ------------------------------------------------------- run context API
getDeviceId ==
  IF ~TruthyString(_deviceId) THEN [fn |-> "getDeviceId", threw |-> TRUE]
  ELSE [fn |-> "getDeviceId", threw |-> FALSE, value |-> _deviceId]

getBundleId ==
  IF ~TruthyString(_bundleId) THEN [fn |-> "getBundleId", threw |-> TRUE]
  ELSE [fn |-> "getBundleId", threw |-> FALSE, value |-> _bundleId]

getPidUnchecked == [fn |-> "getPid", threw |-> FALSE, value |-> _pid]

getPid ==
  IF ~TruthyNumber(_pid) THEN [fn |-> "getPid", threw |-> TRUE]
  ELSE [fn |-> "getPid", threw |-> FALSE, value |-> _pid]

\* a plugin calls one of the three accessors
CallAccessor ==
  /\ registered
  /\ \/ apiResult' = getDeviceId
     \/ apiResult' = getBundleId
     \/ apiResult' = getPid
  /\ UNCHANGED <<_idlePromise, _onIdleCallbacks, _activeArtifacts, _artifactPlugins,
                 _deviceId, _bundleId, _pid, _terminated, registered, termVars, emitVars,
                 chain, idleTasks, started, _from, errorLog, launches, lastLaunch,
                 relaunches>>

\* ------------------------------------------------------------ idle chain
\* The promise with index k of the idle chain ch is fulfilled, the idle
\* callbacks being in the states given by tasks: its continuation has run and
\* every callback it started has settled (a failure is caught, so the promise
\* is fulfilled either way).
ResolvedInRejecting(k, ch, tasks) ==
  IF k = 0 THEN TRUE
  ELSE /\ ch[k].state = "started"
       /\ \A t \in ch[k].batch : tasks[t].state = "ok"

ResolvedInNoAwait(k, ch, tasks) ==
  IF k = 0 THEN TRUE
  ELSE ch[k].state = "started"

ResolvedIn(k, ch, tasks) ==
  IF k = 0 THEN TRUE
  ELSE /\ ch[k].state = "started"
       /\ \A t \in ch[k].batch : tasks[t].state \in {"ok", "failed"}

Resolved(k) == ResolvedIn(k, chain, idleTasks)

\* ------------------------------------------------------------ dispatcher
\* The synchronous part of _emit: plugins.map(async plugin => { try { await
\* plugin[methodName](...args) } catch (e) { ... } }) invokes every hook in
\* turn; a synchronous throw is caught like a rejection.
EmitInvokeUncaught(n, throws) == MapUncaught(n, throws)

EmitInvokeDeferred(n, throws) == [i \in 1 .. n |-> "none"]

EmitInvoke(n, throws) ==
  [i \in 1 .. n |-> IF throws[i] THEN "failed" ELSE "running"]

\* What the Promise.all of _emit settles to once every wrapper has settled:
\* each wrapper catches its own failure, so the aggregate is fulfilled.
EmitResultPropagate(hooks) ==
  IF \E i \in 1 .. Len(hooks) : hooks[i] = "failed" THEN "rejected" ELSE "resolved"

EmitResult(hooks) == "resolved"

\* The dispatcher method's progress once its hooks are in the given state:
\* it waits while a hook is running; when the await of _emit is over, every
\* method but onAfterAll returns, and onAfterAll is about to resume at line 151
\* ("emitted"), which it does in a later turn (AfterAllAwaitIdle).
AfterEmitNoAwait(call) ==
  IF call.method = "onAfterAll"
  THEN [call EXCEPT !.state = "emitted"]
  ELSE [call EXCEPT !.state = "resolved"]

AfterEmit(call) ==
  IF \E i \in 1 .. Len(call.hooks) : call.hooks[i] = "running" THEN call
  ELSE IF EmitResult(call.hooks) = "rejected" THEN [call EXCEPT !.state = "rejected"]
  ELSE IF call.method = "onAfterAll" THEN [call EXCEPT !.state = "emitted"]
  ELSE [call EXCEPT !.state = "resolved"]

_emit(methodName, args, throws) ==
  LET n == Len(_artifactPlugins)
      hooks == EmitInvoke(n, throws)
  IN  /\ Len(calls) < MaxCalls
      /\ calls' = Append(calls, AfterEmit([method |-> methodName, args |-> args,
                                           hooks |-> hooks, state |-> "pending", tail |-> 0]))
      /\ hookCalls' = [p \in PluginIds |-> [m \in Methods |->
                         IF m = methodName /\ \E i \in 1 .. n :
                              _artifactPlugins[i] = p /\ hooks[i] # "none"
                         THEN hookCalls[p][m] + 1 ELSE hookCalls[p][m]]]
      /\ errorLog' = errorLog \cup
           {_errorHandler(PluginNameOf(_artifactPlugins[i]), methodName) :
              i \in {j \in 1 .. n : hooks[j] \in {"failed", "threw"}}}

ThrowChoices == [1 .. Len(_artifactPlugins) -> BOOLEAN]

dispatchFrame == <<_activeArtifacts, _artifactPlugins, _terminated, registered,
                   idleVars, termVars, apiResult>>

onBeforeAll ==
  /\ registered
  /\ \E throws \in ThrowChoices : _emit("onBeforeAll", <<>>, throws)
  /\ UNCHANGED <<dispatchFrame, _deviceId, _bundleId, _pid, launches, lastLaunch, relaunches>>

onBeforeTest ==
  /\ registered
  /\ \E throws \in ThrowChoices, testSummary \in TestSummaries :
       _emit("onBeforeTest", <<testSummary>>, throws)
  /\ UNCHANGED <<dispatchFrame, _deviceId, _bundleId, _pid, launches, lastLaunch, relaunches>>

onBeforeResetDevice ==
  /\ registered
  /\ \E throws \in ThrowChoices, deviceId \in ResetDeviceIds :
       _emit("onBeforeResetDevice", <<[deviceId |-> deviceId]>>, throws)
  /\ UNCHANGED <<dispatchFrame, _deviceId, _bundleId, _pid, launches, lastLaunch, relaunches>>

onResetDeviceUnbinds ==
  /\ registered
  /\ \E throws \in ThrowChoices, deviceId \in ResetDeviceIds :
       _emit("onResetDevice", <<[deviceId |-> deviceId]>>, throws)
  /\ _pid' = NaN
  /\ UNCHANGED <<dispatchFrame, _deviceId, _bundleId, launches, lastLaunch, relaunches>>

onResetDevice ==
  /\ registered
  /\ \E throws \in ThrowChoices, deviceId \in ResetDeviceIds :
       _emit("onResetDevice", <<[deviceId |-> deviceId]>>, throws)
  /\ UNCHANGED <<dispatchFrame, _deviceId, _bundleId, _pid, launches, lastLaunch, relaunches>>

onAfterTest ==
  /\ registered
  /\ \E throws \in ThrowChoices, testSummary \in TestSummaries :
       _emit("onAfterTest", <<testSummary>>, throws)
  /\ UNCHANGED <<dispatchFrame, _deviceId, _bundleId, _pid, launches, lastLaunch, relaunches>>

\* onAfterAll first fans out (line 150); it goes on in AfterAllAwaitIdle
onAfterAll ==
  /\ registered
  /\ \E throws \in ThrowChoices : _emit("onAfterAll", <<>>, throws)
  /\ UNCHANGED <<dispatchFrame, _deviceId, _bundleId, _pid, launches, lastLaunch, relaunches>>

\* await this._idlePromise (line 151): onAfterAll resumes after the await of
\* _emit, reads the tail the idle chain has by then and awaits it. The await
\* suspends the method even when that promise is already fulfilled.
AfterAllAwaitIdle ==
  \E c \in 1 .. Len(calls) :
    /\ calls[c].state = "emitted"
    /\ calls' = [calls EXCEPT ![c] =
                   [calls[c] EXCEPT !.tail = _idlePromise, !.state = "awaitIdle"]]
    /\ UNCHANGED <<dispatchFrame, ctxVars, hookCalls, errorLog>>

\* onAfterAll resumes after await this._idlePromise and returns (lines
\* 152-153): a later turn than the one in which the awaited promise was
\* fulfilled, so that the idle chain may have grown in between
ResumeAfterAll ==
  \E c \in 1 .. Len(calls) :
    /\ calls[c].state = "awaitIdle"
    /\ Resolved(calls[c].tail)
    /\ calls' = [calls EXCEPT ![c].state = "resolved"]
    /\ UNCHANGED <<dispatchFrame, ctxVars, hookCalls, errorLog>>

\* const isFirstTime = !this._deviceId
IsFirstTimeNever(deviceId) == FALSE

IsFirstTime(deviceId) == ~TruthyString(deviceId)

onLaunchApp ==
  /\ registered
  /\ launches < MaxLaunches
  /\ \E deviceId \in DeviceIds, bundleId \in BundleIds, pid \in Pids :
       LET payload == [deviceId |-> deviceId, bundleId |-> bundleId, pid |-> pid]
       IN  /\ _deviceId' = deviceId
           /\ _bundleId' = bundleId
           /\ _pid' = pid
           /\ launches' = launches + 1
           /\ lastLaunch' = payload
           /\ IF ~IsFirstTime(_deviceId)
              THEN /\ \E throws \in ThrowChoices : _emit("onRelaunchApp", <<payload>>, throws)
                   /\ relaunches' = relaunches + 1
              ELSE UNCHANGED <<calls, hookCalls, errorLog, relaunches>>
  /\ UNCHANGED dispatchFrame

\* a pending hook promise of call c fulfils or rejects; the catch of _emit's
\* wrapper reports a rejection; the last hook to settle lets the method go on
HookSettle ==
  \E c \in 1 .. Len(calls), i \in 1 .. Len(_artifactPlugins), ok \in BOOLEAN :
    /\ i <= Len(calls[c].hooks)
    /\ calls[c].hooks[i] = "running"
    /\ calls' = [calls EXCEPT ![c] =
                   AfterEmit([calls[c] EXCEPT !.hooks[i] = IF ok THEN "ok" ELSE "failed"])]
    /\ errorLog' = IF ok THEN errorLog
                   ELSE errorLog \cup
                          {_errorHandler(PluginNameOf(_artifactPlugins[i]), calls[c].method)}
    /\ UNCHANGED <<dispatchFrame, ctxVars, hookCalls>>

\* ------------------------------------------------------ artifact tracking
trackArtifact ==
  /\ registered
  /\ Len(_activeArtifacts) < MaxTracked
  /\ \E artifact \in 1 .. NumArtifacts :
       _activeArtifacts' = Append(_activeArtifacts, artifact)
  /\ teardownLive' = IF onceCalls >= 1 THEN [teardownLive EXCEPT !.clean = FALSE]
                     ELSE [teardownLive EXCEPT
                             !.live = @ \cup {_activeArtifacts'[Len(_activeArtifacts')]}]
  /\ apiResult' = [fn |-> "trackArtifact", threw |-> FALSE]
  /\ UNCHANGED <<_artifactPlugins, _terminated, registered, errorLog, _deviceId, _bundleId,
                 _pid, launches, lastLaunch, relaunches, idleVars, onceCalls, termState,
                 termHooks, discards, terminateCalls, discardCalls, discardRounds, emitVars>>

\* untrackArtifact(artifact) { _.pull(this._activeArtifacts, artifact) } is
\* written as a method of the artifactsApi object literal, not as an arrow
\* function, so its this is whatever it is called on. Called on the API
\* object, as api.untrackArtifact(a), this is artifactsApi, which has no
\* _activeArtifacts: _.pull(undefined, artifact) removes nothing and throws
\* nothing, and the manager's array is left as it is.
UntrackPull(array, artifact) == array

\* Called detached from the API object (const {untrackArtifact} = api), this
\* is undefined, the object literal being strict code inside a class body:
\* reading this._activeArtifacts throws a TypeError.
UntrackThrows(detached) == detached

untrackArtifact ==
  /\ registered
  /\ \E artifact \in 1 .. NumArtifacts, detached \in BOOLEAN :
       /\ _activeArtifacts' = IF UntrackThrows(detached) THEN _activeArtifacts
                              ELSE UntrackPull(_activeArtifacts, artifact)
       /\ apiResult' = [fn |-> "untrackArtifact", threw |-> UntrackThrows(detached),
                        value |-> artifact]
       /\ teardownLive' =
            IF onceCalls >= 1
            THEN [teardownLive EXCEPT !.clean = @ /\ artifact \notin teardownLive.live]
            ELSE [teardownLive EXCEPT !.live = @ \ {artifact}]
  /\ UNCHANGED <<_artifactPlugins, _terminated, registered, errorLog, _deviceId, _bundleId,
                 _pid, launches, lastLaunch, relaunches, idleVars, onceCalls, termState,
                 termHooks, discards, terminateCalls, discardCalls, discardRounds, emitVars>>

\* this._idlePromise.then(...): the new promise continues the current tail
ChainOffResolved(tail) == 0

ChainOff(tail) == tail

\* The callback functions a request can pass: one passed before, or the next
\* function not passed yet (functions are told apart by identity only).
CallbackChoices ==
  LET used == {idleTasks[t].callback : t \in 1 .. Len(idleTasks)}
  IN  {cb \in 1 .. NumCallbacks : cb \in used \/ cb = Cardinality(used) + 1}

requestIdleCallbackCoalesced ==
  /\ registered
  /\ Len(idleTasks) < MaxIdle
  /\ \E caller \in 1 .. Len(_artifactPlugins), callback \in CallbackChoices :
       /\ _from' = [_from EXCEPT ![callback] = PluginNameOf(_artifactPlugins[caller])]
       /\ idleTasks' = Append(idleTasks, [callback |-> callback,
                                          from |-> PluginNameOf(_artifactPlugins[caller]),
                                          state |-> "queued"])
  /\ _onIdleCallbacks' = Append(_onIdleCallbacks, Len(idleTasks) + 1)
  /\ IF Resolved(_idlePromise)
     THEN /\ chain' = Append(chain, [prev |-> ChainOff(_idlePromise), state |-> "waiting",
                                     batch |-> {}, mode |-> "none", late |-> onceCalls >= 1])
          /\ _idlePromise' = Len(chain) + 1
     ELSE UNCHANGED <<chain, _idlePromise>>
  /\ UNCHANGED <<_activeArtifacts, _artifactPlugins, _terminated, registered, started,
                 errorLog, ctxVars, termVars, emitVars>>

requestIdleCallback ==
  /\ registered
  /\ Len(idleTasks) < MaxIdle
  /\ \E caller \in 1 .. Len(_artifactPlugins), callback \in CallbackChoices :
       /\ _from' = [_from EXCEPT ![callback] = PluginNameOf(_artifactPlugins[caller])]
       /\ idleTasks' = Append(idleTasks, [callback |-> callback,
                                          from |-> PluginNameOf(_artifactPlugins[caller]),
                                          state |-> "queued"])
  /\ _onIdleCallbacks' = Append(_onIdleCallbacks, Len(idleTasks) + 1)
  /\ chain' = Append(chain, [prev |-> ChainOff(_idlePromise), state |-> "waiting",
                              batch |-> {}, mode |-> "none", late |-> onceCalls >= 1])
  /\ _idlePromise' = Len(chain) + 1
  /\ UNCHANGED <<_activeArtifacts, _artifactPlugins, _terminated, registered, started,
                 errorLog, ctxVars, termVars, emitVars>>

\* const onIdleCallback = this._onIdleCallbacks.shift(); run it if there is one
_runNextIdleTaskPeek(k) ==
  IF _onIdleCallbacks = <<>>
  THEN /\ chain' = [chain EXCEPT ![k].state = "started", ![k].mode = "next"]
       /\ UNCHANGED <<_onIdleCallbacks, idleTasks, started>>
  ELSE LET t == Head(_onIdleCallbacks)
       IN  /\ _onIdleCallbacks' = _onIdleCallbacks
           /\ idleTasks' = [idleTasks EXCEPT ![t].state = "running"]
           /\ started' = Append(started, t)
           /\ chain' = [chain EXCEPT ![k].state = "started", ![k].batch = {t},
                                     ![k].mode = "next"]

_runNextIdleTask(k) ==
  IF _onIdleCallbacks = <<>>
  THEN /\ chain' = [chain EXCEPT ![k].state = "started", ![k].mode = "next"]
       /\ UNCHANGED <<_onIdleCallbacks, idleTasks, started>>
  ELSE LET t == Head(_onIdleCallbacks)
       IN  /\ _onIdleCallbacks' = Tail(_onIdleCallbacks)
           /\ idleTasks' = [idleTasks EXCEPT ![t].state = "running"]
           /\ started' = Append(started, t)
           /\ chain' = [chain EXCEPT ![k].state = "started", ![k].batch = {t},
                                     ![k].mode = "next"]

\* const onIdleCallbacks = this._onIdleCallbacks.splice(0); run them all
_runAllIdleTasks(k) ==
  LET batch == {_onIdleCallbacks[i] : i \in 1 .. Len(_onIdleCallbacks)}
  IN  /\ _onIdleCallbacks' = <<>>
      /\ idleTasks' = [t \in 1 .. Len(idleTasks) |->
                        IF t \in batch THEN [idleTasks[t] EXCEPT !.state = "running"]
                        ELSE idleTasks[t]]
      /\ started' = started \o _onIdleCallbacks
      /\ chain' = [chain EXCEPT ![k].state = "started", ![k].batch = batch,
                                ![k].mode = "all"]

\* the .then continuation appended by requestIdleCallback runs once the
\* promise it was chained off is fulfilled
IdleContinuation ==
  \E k \in 1 .. Len(chain) :
    /\ chain[k].state = "waiting"
    /\ Resolved(chain[k].prev)
    /\ IF _terminated THEN _runAllIdleTasks(k) ELSE _runNextIdleTask(k)
    /\ UNCHANGED <<_idlePromise, _from, _activeArtifacts, _artifactPlugins, _terminated,
                   registered, errorLog, ctxVars, termVars, emitVars>>

\* _idleCallbackErrorHandle(e, callback): the plugin name reported is the tag
\* found on the callback function when it fails
_idleCallbackErrorHandle(callback) == _errorHandler(_from[callback], "onIdleCallback")

\* a running idle callback completes or fails; the .catch reports a failure
IdleTaskSettle ==
  \E t \in 1 .. Len(idleTasks), ok \in BOOLEAN :
    /\ idleTasks[t].state = "running"
    /\ idleTasks' = [idleTasks EXCEPT ![t].state = IF ok THEN "ok" ELSE "failed"]
    /\ errorLog' = IF ok THEN errorLog
                   ELSE errorLog \cup {_idleCallbackErrorHandle(idleTasks[t].callback)}
    /\ UNCHANGED <<_idlePromise, _onIdleCallbacks, chain, started, _from, _activeArtifacts,
                   _artifactPlugins, _terminated, registered, ctxVars, termVars, emitVars>>

\* --------------------------------------------------------------- teardown
\* _.once(func): func runs on the first call, later calls return its result
OnceAlways(n) == TRUE

OnceFirst(n) == n = 0

\* this._artifactPlugins.map(plugin => plugin.onTerminate())
TerminateInvoke(n, throws) == MapUncaught(n, throws)

\* this._activeArtifacts.map(artifact => artifact.discard())
DiscardInvoke(n, throws) == MapUncaught(n, throws)

onTerminateBody(throws) ==
  LET n == Len(_artifactPlugins)
      hooks == TerminateInvoke(n, throws)
  IN  /\ termHooks' = hooks
      /\ discards' = <<>>
      /\ terminateCalls' = [p \in PluginIds |->
                              IF \E i \in 1 .. n : _artifactPlugins[i] = p /\ hooks[i] # "none"
                              THEN terminateCalls[p] + 1 ELSE terminateCalls[p]]
      /\ termState' = IF \E i \in 1 .. n : hooks[i] = "threw" THEN "rejected" ELSE "plugins"
      /\ teardownLive' = teardownLive
      /\ UNCHANGED <<discardCalls, discardRounds>>

onTerminateDropsIdle ==
  /\ registered
  /\ onceCalls < MaxTerminateCalls
  /\ onceCalls' = onceCalls + 1
  /\ IF OnceFirst(onceCalls)
     THEN \E throws \in ThrowChoices : onTerminateBody(throws)
     ELSE UNCHANGED <<termState, termHooks, discards, terminateCalls, discardCalls,
                      discardRounds, teardownLive>>
  /\ _onIdleCallbacks' = <<>>
  /\ UNCHANGED <<_activeArtifacts, _artifactPlugins, _terminated, registered, errorLog,
                 ctxVars, _idlePromise, chain, idleTasks, started, _from, emitVars>>

onTerminate ==
  /\ registered
  /\ onceCalls < MaxTerminateCalls
  /\ onceCalls' = onceCalls + 1
  /\ IF OnceFirst(onceCalls)
     THEN \E throws \in ThrowChoices : onTerminateBody(throws)
     ELSE UNCHANGED <<termState, termHooks, discards, terminateCalls, discardCalls,
                      discardRounds, teardownLive>>
  /\ UNCHANGED <<_activeArtifacts, _artifactPlugins, _terminated, registered, errorLog,
                 ctxVars, idleVars, emitVars>>

\* a plugin.onTerminate() promise settles while the body awaits the
\* Promise.all of line 156; a rejection rejects the Promise.all and with it the
\* body.  What the other promises do after that reaches nothing in the class.
TermHookSettle ==
  \E i \in 1 .. Len(termHooks), ok \in BOOLEAN :
    /\ termState = "plugins"
    /\ termHooks[i] = "running"
    /\ termHooks' = [termHooks EXCEPT ![i] = IF ok THEN "ok" ELSE "rejected"]
    /\ termState' = IF ok THEN termState ELSE "rejected"
    /\ UNCHANGED <<onceCalls, discards, terminateCalls, discardCalls, discardRounds, teardownLive,
                   _activeArtifacts, _artifactPlugins, _terminated, registered, errorLog,
                   ctxVars, idleVars, emitVars>>

\* The body's progress at line 157 with the discard() calls in the given
\* states: rejected once one has failed, waiting while one is pending, and
\* returned ('terminated all artifacts') once all are fulfilled.
DiscardsOutcome(states) ==
  IF \E i \in 1 .. Len(states) : states[i] \in {"threw", "rejected"} THEN "rejected"
  ELSE IF \E i \in 1 .. Len(states) : states[i] = "running" THEN "discards"
  ELSE "resolved"

\* every plugin.onTerminate() is fulfilled: the body goes on to line 157
TermDiscard ==
  /\ termState = "plugins"
  /\ \A i \in 1 .. Len(termHooks) : termHooks[i] = "ok"
  /\ \E throws \in [1 .. Len(_activeArtifacts) -> BOOLEAN] :
       LET n == Len(_activeArtifacts)
           st == DiscardInvoke(n, throws)
       IN  /\ discards' = [i \in 1 .. n |-> [artifact |-> _activeArtifacts[i], state |-> st[i]]]
           /\ discardCalls' = [a \in 1 .. NumArtifacts |->
                 discardCalls[a] +
                   Cardinality({i \in 1 .. n : _activeArtifacts[i] = a /\ st[i] # "none"})]
           /\ termState' = DiscardsOutcome(st)
  /\ discardRounds' = discardRounds + 1
  /\ UNCHANGED <<onceCalls, termHooks, terminateCalls, teardownLive, _activeArtifacts,
                 _artifactPlugins, _terminated, registered, errorLog, ctxVars, idleVars, emitVars>>

\* an artifact.discard() promise settles while the body awaits the
\* Promise.all of line 157; a rejection rejects it and with it the body
DiscardSettle ==
  \E i \in 1 .. Len(discards), ok \in BOOLEAN :
    /\ termState = "discards"
    /\ discards[i].state = "running"
    /\ discards' = [discards EXCEPT ![i].state = IF ok THEN "ok" ELSE "rejected"]
    /\ termState' = DiscardsOutcome([j \in 1 .. Len(discards) |-> discards'[j].state])
    /\ UNCHANGED <<onceCalls, termHooks, terminateCalls, discardCalls, discardRounds, teardownLive,
                   _activeArtifacts, _artifactPlugins, _terminated, registered, errorLog,
                   ctxVars, idleVars, emitVars>>

\* ---------------------------------------------------------- specifications
Next ==
  \/ \E n \in 0 .. NumPlugins : registerArtifactPlugins(n)
  \/ CallAccessor
  \/ onBeforeAll
  \/ onBeforeTest
  \/ onBeforeResetDevice
  \/ onResetDevice
  \/ onAfterTest
  \/ onAfterAll
  \/ AfterAllAwaitIdle
  \/ ResumeAfterAll
  \/ onLaunchApp
  \/ HookSettle
  \/ trackArtifact
  \/ untrackArtifact
  \/ requestIdleCallback
  \/ IdleContinuation
  \/ IdleTaskSettle
  \/ onTerminate
  \/ TermHookSettle
  \/ TermDiscard
  \/ DiscardSettle

Spec == Init /\ [][Next]_vars

\* The dispatcher on its own: the lifecycle events and their hooks.
NextDispatch ==
  \/ \E n \in 0 .. NumPlugins : registerArtifactPlugins(n)
  \/ onBeforeAll
  \/ onBeforeTest
  \/ onBeforeResetDevice
  \/ onResetDevice
  \/ onAfterTest
  \/ onAfterAll
  \/ AfterAllAwaitIdle
  \/ ResumeAfterAll
  \/ onLaunchApp
  \/ HookSettle

SpecDispatch == Init /\ [][NextDispatch]_vars

\* The run context: launches, the relaunch fan-out and the accessors.
NextContext ==
  \/ \E n \in 0 .. NumPlugins : registerArtifactPlugins(n)
  \/ onLaunchApp
  \/ CallAccessor
  \/ HookSettle

SpecContext == Init /\ [][NextContext]_vars

\* The idle chain and onAfterAll, which awaits its tail.
NextIdle ==
  \/ \E n \in 0 .. NumPlugins : registerArtifactPlugins(n)
  \/ requestIdleCallback
  \/ IdleContinuation
  \/ IdleTaskSettle
  \/ onAfterAll
  \/ AfterAllAwaitIdle
  \/ ResumeAfterAll
  \/ HookSettle

SpecIdle == Init /\ [][NextIdle]_vars

\* The idle chain and the teardown.
NextShutdown ==
  \/ \E n \in 0 .. NumPlugins : registerArtifactPlugins(n)
  \/ requestIdleCallback
  \/ IdleContinuation
  \/ IdleTaskSettle
  \/ onTerminate
  \/ TermHookSettle
  \/ TermDiscard

SpecShutdown == Init /\ [][NextShutdown]_vars

\* The same, with the scheduling the event loop gives: a continuation whose
\* promise is fulfilled is run, and every idle task that was started settles.
SpecShutdownFair ==
  Init /\ [][NextShutdown]_vars /\ WF_vars(IdleContinuation) /\ WF_vars(IdleTaskSettle)

\* The idle chain on its own, before the teardown: requests and drains.
NextChain ==
  \/ \E n \in 0 .. NumPlugins : registerArtifactPlugins(n)
  \/ requestIdleCallback
  \/ IdleContinuation
  \/ IdleTaskSettle

SpecChain == Init /\ [][NextChain]_vars

\* Artifact tracking and the teardown.
NextTeardown ==
  \/ \E n \in 0 .. NumPlugins : registerArtifactPlugins(n)
  \/ trackArtifact
  \/ untrackArtifact
  \/ onTerminate
  \/ TermHookSettle
  \/ TermDiscard
  \/ DiscardSettle

SpecTeardown == Init /\ [][NextTeardown]_vars

\* Every operation of the class, in runs of at most MaxWork events, requests
\* and tracked artifacts.
Work == Len(calls) + Len(idleTasks) + Len(_activeArtifacts) + launches + onceCalls

NextFrame ==
  \/ \E n \in 0 .. NumPlugins : registerArtifactPlugins(n)
  \/ CallAccessor
  \/ Work < MaxWork /\ onBeforeAll
  \/ Work < MaxWork /\ onBeforeTest
  \/ Work < MaxWork /\ onBeforeResetDevice
  \/ Work < MaxWork /\ onResetDevice
  \/ Work < MaxWork /\ onAfterTest
  \/ Work < MaxWork /\ onAfterAll
  \/ AfterAllAwaitIdle
  \/ ResumeAfterAll
  \/ Work < MaxWork /\ onLaunchApp
  \/ HookSettle
  \/ Work < MaxWork /\ trackArtifact
  \/ untrackArtifact
  \/ Work < MaxWork /\ requestIdleCallback
  \/ IdleContinuation
  \/ IdleTaskSettle
  \/ Work < MaxWork /\ onTerminate
  \/ TermHookSettle
  \/ TermDiscard
  \/ DiscardSettle

SpecFrame == Init /\ [][NextFrame]_vars

\* ------------------------------------------------------------------ claims
EventsRaised(m) == Cardinality({c \in 1 .. Len(calls) : calls[c].method = m})

\* C1: for every event raised, each registered plugin's same-named hook is
\* invoked exactly once, whether or not a sibling's hook fails: the number of
\* invocations of plugin p's hook m equals the number of events m raised, and
\* every fan-out has invoked each registered plugin.
C1_EachHookOncePerEvent ==
  /\ \A i \in 1 .. Len(_artifactPlugins), m \in Methods :
       hookCalls[_artifactPlugins[i]][m] = EventsRaised(m)
  /\ \A c \in 1 .. Len(calls) :
       /\ Len(calls[c].hooks) = Len(_artifactPlugins)
       /\ \A i \in 1 .. Len(calls[c].hooks) : calls[c].hooks[i] # "none"

\* two events raised with two plugins, the first plugin's hook failing in one
C1_Witness ==
  /\ Len(_artifactPlugins) = 2
  /\ Len(calls) = 2
  /\ calls[1].hooks[1] = "failed"
  /\ calls[2].method = "onRelaunchApp"
  /\ hookCalls[2][calls[1].method] >= 1
  /\ hookCalls[2]["onRelaunchApp"] = 1

ReportedAs(p, m) == <<IF PluginNameOf(p) = "" THEN "unknown" ELSE PluginNameOf(p), m>>

\* C2: a failing hook never makes the dispatcher's future reject and never
\* prevents the sibling hooks of the event from running; once every hook has
\* settled the call goes on (it resolves, or for onAfterAll awaits the idle
\* chain), and each failure is reported with the plugin's name and the method.
C2_FailureIsolated ==
  \A c \in 1 .. Len(calls) :
    /\ calls[c].state # "rejected"
    /\ (\A i \in 1 .. Len(calls[c].hooks) : calls[c].hooks[i] # "running")
         => \/ calls[c].state = "resolved"
            \/ calls[c].state = "emitted" /\ calls[c].method = "onAfterAll"
            \/ calls[c].state = "awaitIdle" /\ calls[c].method = "onAfterAll"
    /\ \A i \in 1 .. Len(calls[c].hooks) :
         calls[c].hooks[i] \in {"failed", "threw"} =>
           /\ ReportedAs(_artifactPlugins[i], calls[c].method) \in errorLog
           /\ \A j \in 1 .. Len(_artifactPlugins) :
                j <= Len(calls[c].hooks) /\ calls[c].hooks[j] # "none"

\* a call has resolved although the first plugin's hook failed; the second
\* plugin's hook ran to completion
C2_Witness ==
  \E c \in 1 .. Len(calls) :
    /\ Len(calls[c].hooks) = 2
    /\ calls[c].hooks[1] = "failed"
    /\ calls[c].hooks[2] = "ok"
    /\ calls[c].state = "resolved"
    /\ <<"1", calls[c].method>> \in errorLog

AccessorsFail ==
  /\ getDeviceId = [fn |-> "getDeviceId", threw |-> TRUE]
  /\ getBundleId = [fn |-> "getBundleId", threw |-> TRUE]
  /\ getPid = [fn |-> "getPid", threw |-> TRUE]

\* C3 as stated: the three accessors fail in every state before the first
\* launchApp event, and in every state after a launchApp event each succeeds
\* and returns the value carried by the most recent launchApp event.
C3_AccessorsFollowLaunch ==
  IF launches = 0 THEN AccessorsFail
  ELSE /\ getDeviceId = [fn |-> "getDeviceId", threw |-> FALSE, value |-> lastLaunch.deviceId]
       /\ getBundleId = [fn |-> "getBundleId", threw |-> FALSE, value |-> lastLaunch.bundleId]
       /\ getPid = [fn |-> "getPid", threw |-> FALSE, value |-> lastLaunch.pid]

\* C3 amended: the three accessors fail in every state before the first
\* launchApp event; after a launchApp event each returns the value carried by
\* the most recent launchApp event when that value is truthy (a non-empty
\* string, a pid other than 0 and NaN) and fails when it is not.
C3_AccessorsFollowTruthyLaunch ==
  IF launches = 0 THEN AccessorsFail
  ELSE /\ getDeviceId =
            IF lastLaunch.deviceId = "" THEN [fn |-> "getDeviceId", threw |-> TRUE]
            ELSE [fn |-> "getDeviceId", threw |-> FALSE, value |-> lastLaunch.deviceId]
       /\ getBundleId =
            IF lastLaunch.bundleId = "" THEN [fn |-> "getBundleId", threw |-> TRUE]
            ELSE [fn |-> "getBundleId", threw |-> FALSE, value |-> lastLaunch.bundleId]
       /\ getPid =
            IF lastLaunch.pid \in {0, NaN} THEN [fn |-> "getPid", threw |-> TRUE]
            ELSE [fn |-> "getPid", threw |-> FALSE, value |-> lastLaunch.pid]

\* after a second launch a plugin read the device id of that launch, while
\* the pid it carried was 0
C3_Witness ==
  /\ launches = 2
  /\ lastLaunch = [deviceId |-> "emu-2", bundleId |-> "com.app", pid |-> 0]
  /\ apiResult = [fn |-> "getDeviceId", threw |-> FALSE, value |-> "emu-2"]

\* the step raised one onRelaunchApp fan-out to every plugin with the payload
\* of the launchApp event handled in it
RelaunchFanOut ==
  /\ Len(calls') = Len(calls) + 1
  /\ relaunches' = relaunches + 1
  /\ LET call == calls'[Len(calls')]
     IN  /\ call.method = "onRelaunchApp"
         /\ call.args = <<lastLaunch'>>
         /\ Len(call.hooks) = Len(_artifactPlugins)
         /\ \A i \in 1 .. Len(call.hooks) : call.hooks[i] # "none"

\* C4 as stated: the first launchApp event never triggers an onRelaunchApp
\* fan-out, and every subsequent launchApp event triggers exactly one, to
\* every plugin, with that event's payload.
C4_RelaunchOnEveryLaterLaunch ==
  [][launches' = launches + 1 =>
       IF launches = 0 THEN calls' = calls /\ relaunches' = relaunches
       ELSE RelaunchFanOut]_vars

\* C4 amended: the first launchApp event never triggers an onRelaunchApp
\* fan-out; a later launchApp event triggers exactly one, to every plugin,
\* with that event's payload, exactly when the launchApp event before it
\* carried a non-empty deviceId.
C4_RelaunchWhenDeviceBound ==
  [][launches' = launches + 1 =>
       IF launches > 0 /\ lastLaunch.deviceId # ""
       THEN RelaunchFanOut
       ELSE calls' = calls /\ relaunches' = relaunches]_vars

\* two launches, the second of which fanned out its own payload
C4_Witness ==
  /\ launches = 2
  /\ relaunches = 1
  /\ Len(calls) = 1
  /\ Len(_artifactPlugins) = 2
  /\ calls[1].method = "onRelaunchApp"
  /\ calls[1].args = <<[deviceId |-> "emu-2", bundleId |-> "", pid |-> 4242]>>

RunningIdleTasks == {t \in 1 .. Len(idleTasks) : idleTasks[t].state = "running"}

\* C5: idle tasks are started in the order in which they were requested (task
\* ids count the requests), one at a time: a task starts only after every task
\* requested before it has settled, whichever plugins requested them.
C5_IdleTasksInOrderOneAtATime ==
  /\ \A i \in 1 .. Len(started) : started[i] = i
  /\ Cardinality(RunningIdleTasks) <= 1
  /\ \A t \in RunningIdleTasks :
       \A u \in 1 .. (t - 1) : idleTasks[u].state \in {"ok", "failed"}

\* A, B and C, requested by different plugins, have run in that order; A failed
C5_Witness ==
  /\ Len(idleTasks) = 3
  /\ started = <<1, 2, 3>>
  /\ idleTasks[1].from # idleTasks[2].from
  /\ idleTasks[1].state = "failed"
  /\ idleTasks[2].state = "ok"
  /\ idleTasks[3].state = "running"

\* C6: onTerminate is idempotent: however often it is invoked, each plugin's
\* onTerminate is called at most once and the discard line of the body runs at
\* most once; before the first invocation neither has happened.
C6_TerminateOnce ==
  /\ \A p \in PluginIds : terminateCalls[p] <= (IF onceCalls >= 1 THEN 1 ELSE 0)
  /\ discardRounds <= (IF onceCalls >= 1 THEN 1 ELSE 0)
  /\ \A a \in 1 .. NumArtifacts :
       discardCalls[a] <= Cardinality({i \in 1 .. Len(discards) : discards[i].artifact = a})

\* onTerminate was invoked twice; the plugins were terminated once and the
\* tracked artifact was discarded once
C6_Witness ==
  /\ onceCalls = 2
  /\ Len(_artifactPlugins) = 2
  /\ terminateCalls[1] = 1
  /\ terminateCalls[2] = 1
  /\ discardRounds = 1
  /\ discardCalls[1] = 1
  /\ termState = "resolved"

TeardownOver == termState \in {"resolved", "rejected"}

\* C7: after a sequence of trackArtifact and untrackArtifact calls followed by
\* onTerminate, every artifact still tracked has had discard() invoked exactly
\* once by the teardown, and no other artifact has been discarded.
C7_TrackedDiscardedOnce ==
  (TeardownOver /\ teardownLive.clean) =>
    \A a \in 1 .. NumArtifacts :
      discardCalls[a] = (IF a \in teardownLive.live THEN 1 ELSE 0)

\* C8: once onTerminate has been invoked the run is marked terminated, and a
\* continuation appended by a later requestIdleCallback drains the whole queue
\* (_runAllIdleTasks) instead of one task.
C8_TerminatedForcesDrainAll ==
  /\ onceCalls >= 1 => _terminated
  /\ \A k \in 1 .. Len(chain) :
       (chain[k].late /\ chain[k].state = "started") => chain[k].mode = "all"

\* C9: at the moment the future of onAfterAll resolves, the idle-callback
\* queue is empty and no idle task is in flight.
C9_AfterAllFlushesIdleWork ==
  [][\A c \in 1 .. Len(calls) :
       (calls[c].method = "onAfterAll" /\ calls[c].state # "resolved"
          /\ calls'[c].state = "resolved")
       => (_onIdleCallbacks' = <<>>
             /\ \A t \in 1 .. Len(idleTasks') : idleTasks'[t].state \in {"ok", "failed"})]_vars

NoDiscardFailed ==
  \A i \in 1 .. Len(discards) : discards[i].state \notin {"threw", "rejected"}

\* C10: when onTerminate runs, every registered plugin's onTerminate is
\* invoked, a failing plugin.onTerminate does not make the teardown future
\* reject, and every still-tracked artifact is discarded whether or not a
\* plugin's onTerminate failed.
C10_TeardownIsolatesPlugins ==
  /\ onceCalls >= 1 =>
       \A i \in 1 .. Len(_artifactPlugins) : terminateCalls[_artifactPlugins[i]] = 1
  /\ (termState = "rejected") => ~NoDiscardFailed
  /\ (TeardownOver /\ teardownLive.clean) =>
       \A a \in teardownLive.live : discardCalls[a] >= 1

SettledIdleTasks == {t \in 1 .. Len(idleTasks) : idleTasks[t].state \in {"ok", "failed"}}

\* C11: a failing idle task is reported with the name of the caller that
\* requested it ('unknown' when the caller has no name) at phase
\* onIdleCallback; it never makes a dispatcher call (onAfterAll awaiting the
\* idle chain) reject; and it does not stop the tasks behind it: while a task
\* is queued and none is running, a continuation of the chain is ready to run.
C11_IdleFailureIsolated ==
  /\ \A t \in 1 .. Len(idleTasks) :
       idleTasks[t].state = "failed" =>
         <<IF idleTasks[t].from = "" THEN "unknown" ELSE idleTasks[t].from,
           "onIdleCallback">> \in errorLog
  /\ \A c \in 1 .. Len(calls) : calls[c].state # "rejected"
  /\ (_onIdleCallbacks # <<>> /\ RunningIdleTasks = {}) =>
       \E k \in 1 .. Len(chain) : chain[k].state = "waiting" /\ Resolved(chain[k].prev)

\* C12: untrackArtifact never raises an error; untracking an artifact that is
\* not tracked leaves the tracked array as it is; and untracking the artifact
\* that was untracked just before changes nothing, so that twice has the
\* effect of once.
C12_UntrackIdempotent ==
  [][apiResult'.fn = "untrackArtifact"
     => LET artifact == apiResult'.value
        IN  /\ ~apiResult'.threw
            /\ artifact \notin Tracked(_activeArtifacts)
                 => _activeArtifacts' = _activeArtifacts
            /\ apiResult' = apiResult => _activeArtifacts' = _activeArtifacts]_vars

\* C13: every idle task is started at most once, whatever the interleaving of
\* requests and drains: no task occurs twice among the started ones or twice in
\* the queue, a task is in the queue exactly while it has not been started, and
\* no task belongs to the batches of two drains.
C13_IdleTaskConsumedOnce ==
  /\ \A i, j \in 1 .. Len(started) : i # j => started[i] # started[j]
  /\ \A i, j \in 1 .. Len(_onIdleCallbacks) : i # j => _onIdleCallbacks[i] # _onIdleCallbacks[j]
  /\ \A t \in 1 .. Len(idleTasks) :
       /\ (idleTasks[t].state = "queued") <=> (t \in Tracked(_onIdleCallbacks))
       /\ (idleTasks[t].state # "queued") <=> (t \in Tracked(started))
  /\ \A k, h \in 1 .. Len(chain) : k # h => chain[k].batch \cap chain[h].batch = {}

\* three tasks, the last requested after onTerminate, each consumed by the
\* drain of its own request while the same function was passed twice
C13_Witness ==
  /\ Len(idleTasks) = 3
  /\ \A k \in 1 .. 3 : chain[k].state = "started" /\ chain[k].batch = {k}
  /\ chain[3].late
  /\ idleTasks[1].callback = idleTasks[2].callback
  /\ idleTasks[3].state = "running"

\* the drain chained by request k has started and a task it started is running
DrainInFlight(k) ==
  /\ chain[k].state = "started"
  /\ \E t \in chain[k].batch : idleTasks[t].state = "running"

\* the drain chained by request k has started and every task it started has
\* completed or failed
DrainSettled(k) ==
  /\ chain[k].state = "started"
  /\ \A t \in chain[k].batch : idleTasks[t].state \in {"ok", "failed"}

\* C14: at most one idle drain is in flight; the drain chained by a request
\* has started only if the drain of every earlier request has settled; and
\* each request chains off the tail left by the request before it (the first
\* off the constructor's resolved promise), so no two share a prior tail.
C14_OneDrainInFlight ==
  /\ Cardinality({k \in 1 .. Len(chain) : DrainInFlight(k)}) <= 1
  /\ \A k \in 1 .. Len(chain) :
       /\ chain[k].state = "started" => \A j \in 1 .. (k - 1) : DrainSettled(j)
       /\ chain[k].prev = k - 1
  /\ _idlePromise = Len(chain)

\* the drain of the second request is in flight after the first one failed,
\* and a third request, made meanwhile, waits behind it
C14_Witness ==
  /\ Len(chain) = 3
  /\ idleTasks[1].state = "failed"
  /\ DrainInFlight(2)
  /\ chain[3].state = "waiting"
  /\ _onIdleCallbacks = <<3>>

\* C15: a step that handles a launchApp event leaves the three fields of the
\* run context equal to the event's payload, whatever they and the payload
\* are; every other step of any operation leaves the three fields unchanged.
C15_ContextSetOnlyByLaunch ==
  [][IF launches' = launches + 1
     THEN /\ _deviceId' = lastLaunch'.deviceId
          /\ _bundleId' = lastLaunch'.bundleId
          /\ _pid' = lastLaunch'.pid
     ELSE UNCHANGED <<_deviceId, _bundleId, _pid>>]_vars

\* the context holds the payload of the one launch, empty bundleId and pid 0
\* included, after onTerminate has run and a plugin has called an accessor
C15_Witness ==
  /\ launches = 1
  /\ _deviceId = "emu-1" /\ _bundleId = "" /\ _pid = 0
  /\ termState = "resolved"
  /\ apiResult = [fn |-> "getPid", threw |-> TRUE]

\* the event raised by the step, if it raises one
RaisedIn(m) == Len(calls') = Len(calls) + 1 /\ calls'[Len(calls')].method = m

\* C16: events reach the plugins in the order they are raised: the step that
\* raises an event invokes the event's hook on every registered plugin, no
\* other step invokes a hook, and the events raised before keep their place,
\* whether or not their hooks have settled; so each plugin's hook for an
\* earlier event is invoked before its hook for a later one.
C16_DispatchInRaiseOrder ==
  [][/\ Len(calls') \in {Len(calls), Len(calls) + 1}
     /\ \A c \in 1 .. Len(calls) :
          calls'[c].method = calls[c].method /\ calls'[c].args = calls[c].args
     /\ \A i \in 1 .. Len(_artifactPlugins), m \in Methods :
          hookCalls'[_artifactPlugins[i]][m] =
            hookCalls[_artifactPlugins[i]][m] + (IF RaisedIn(m) THEN 1 ELSE 0)]_vars

\* onBeforeTest was raised and, while both its hooks were still running,
\* onAfterTest was raised and reached both plugins
C16_Witness ==
  /\ Len(calls) = 2
  /\ calls[1].method = "onBeforeTest" /\ calls[1].hooks = <<"running", "running">>
  /\ calls[2].method = "onAfterTest" /\ calls[2].hooks = <<"running", "failed">>
  /\ hookCalls[1]["onAfterTest"] = 1 /\ hookCalls[2]["onAfterTest"] = 1

\* C17: the future of a dispatcher call has resolved (or, for onAfterAll, has
\* gone on to await the idle chain) only when the hook of every registered
\* plugin for that event has been invoked and has completed or failed; while a
\* hook of the event is running the call is pending.
C17_ResolvesAfterAllHooks ==
  \A c \in 1 .. Len(calls) :
    /\ Len(calls[c].hooks) = Len(_artifactPlugins)
    /\ calls[c].state \in {"pending", "emitted", "awaitIdle", "resolved"}
    /\ calls[c].state # "pending" =>
         \A i \in 1 .. Len(calls[c].hooks) : calls[c].hooks[i] \in {"ok", "failed"}
    /\ (\E i \in 1 .. Len(calls[c].hooks) : calls[c].hooks[i] = "running") =>
         calls[c].state = "pending"

\* of two events raised, the later has resolved after one of its hooks
\* completed and the other failed; the earlier is pending on a hook that runs
C17_Witness ==
  /\ Len(calls) = 2
  /\ calls[1].hooks = <<"ok", "running">> /\ calls[1].state = "pending"
  /\ calls[2].hooks = <<"ok", "failed">> /\ calls[2].state = "resolved"

\* C18: no step of the teardown (the call of onTerminate, the settling of a
\* plugin's onTerminate, the discard line) starts an idle task or changes the
\* idle-callback queue, the idle chain or its tail.
C18_TerminateLeavesIdleChain ==
  [][(onceCalls' # onceCalls \/ termState' # termState \/ termHooks' # termHooks
        \/ discards' # discards \/ discardRounds' # discardRounds)
     => UNCHANGED <<_idlePromise, _onIdleCallbacks, chain, idleTasks, started>>]_vars

\* the teardown has run to its end while the first idle task was running and
\* the second, requested before onTerminate, is still queued behind it
C18_Witness ==
  /\ termState = "resolved"
  /\ Len(idleTasks) = 2
  /\ idleTasks[1].state = "running"
  /\ _onIdleCallbacks = <<2>>
  /\ chain[2].state = "waiting" /\ ~chain[2].late
  /\ _idlePromise = 2

\* C19: provided every started idle task settles, every callback handed to
\* requestIdleCallback, before or after onTerminate, is eventually run to
\* completion or failure, and the tail of the idle chain is fulfilled again and
\* again (for good once the requests stop).
C19_IdleTasksEventuallyRun ==
  /\ \A t \in 1 .. MaxIdle :
       (Len(idleTasks) >= t) ~> (Len(idleTasks) >= t /\ t \in SettledIdleTasks)
  /\ []<>Resolved(_idlePromise)

\* three tasks have run to their end, the second failing and the third
\* requested after onTerminate; the tail is fulfilled
C19_Witness ==
  /\ Len(idleTasks) = 3
  /\ SettledIdleTasks = {1, 2, 3}
  /\ idleTasks[2].state = "failed"
  /\ chain[3].late /\ ~chain[2].late
  /\ Resolved(_idlePromise)

WaitingContinuations == {k \in 1 .. Len(chain) : chain[k].state = "waiting"}

ForcedDrainRan == \E k \in 1 .. Len(chain) : chain[k].mode = "all"

\* C20: the idle callbacks queued are never more than the continuations of
\* the idle chain that have not started, and exactly as many while no forced
\* drain has run; a continuation that drained one task found a task to run.
C20_QueueMatchesContinuations ==
  /\ Len(_onIdleCallbacks) <= Cardinality(WaitingContinuations)
  /\ ~ForcedDrainRan => Len(_onIdleCallbacks) = Cardinality(WaitingContinuations)
  /\ \A k \in 1 .. Len(chain) :
       (chain[k].state = "started" /\ chain[k].mode = "next") => chain[k].batch # {}

\* one continuation has started its task; two callbacks are queued, one of
\* them requested after onTerminate, and two continuations wait for them
C20_Witness ==
  /\ Len(chain) = 3
  /\ chain[1].state = "started" /\ chain[1].batch = {1}
  /\ _onIdleCallbacks = <<2, 3>>
  /\ WaitingContinuations = {2, 3}
  /\ chain[3].late /\ ~chain[2].late
  /\ idleTasks[1].state = "ok"

====
